---------------------------- MODULE Spec2Model ----------------------------
(***************************************************************************)
(* EffectManager (src/src/effects/EffectManager.ts) as a state machine.    *)
(*                                                                         *)
(* The program is single threaded: every handler (showBlip, showBoom,      *)
(* showNewline, clearAllDecorations), every timer callback (TTL removal,   *)
(* combo-animation tick, sprite step, shake tick) and every promise        *)
(* continuation (the part of playSpriteAnim after its await) runs to       *)
(* completion, so each one is one action.                                  *)
(*                                                                         *)
(* setTimeout gives a lower bound on the delay only, and the delays are    *)
(* configuration values read at every call (a TTL may be 0), so a pending  *)
(* callback may run at any later turn of the event loop; timers carry no   *)
(* due time.  Date.now() is the variable now.                              *)
(*                                                                         *)
(* Not modelled: the contents of the decoration options (colours, SVG      *)
(* data URIs, CSS transforms) and createdAt, which only feed the CSS       *)
(* transform of the animation tick.  A decoration option object is         *)
(* modelled by its identity, a number drawn from nextOpt.                  *)
(***************************************************************************)
EXTENDS Integers, Sequences, FiniteSets

Kinds == {"blip", "boom", "newline"}
Views == {"v1", "v2"}
ShakeKeys == {"k1", "k2"}

\* Program constants.
MAX_DECORATIONS_PER_TYPE == 5
BlipMinInterval == 20
BoomMinInterval == 100
BlipShakeMs == 120
BoomShakeMs == 180
NewlineShakeMs == 140
\* Date.now() when the extension starts (any value of at least BoomMinInterval
\* behaves alike: lastBlipAt and lastBoomAt start at 0).
StartNow == 1000
\* Configuration defaults.
maxTrail == 5
decayMs == 120

\* Timer slot values: no handle, a handle whose callback is pending, a
\* handle whose callback already ran (a slot that was not reassigned).
NoTimer == "none"
Armed == "armed"
Stale == "stale"

\* The animation layer shows nothing.
NoFrame == <<>>
\* No entry in runningSpriteAnim for a kind.
NoRun == [i |-> 0, t |-> NoTimer]
\* spriteData[kind] is not decoded yet (a decoded result has fps >= 1).
NoData == [frames |-> <<>>, fps |-> 0]
\* The asset text has no "speed" entry.
NoSpeed == -1
DefaultFps == 24
\* An asset as ensureSpriteData sees it: the AtlasTexture blocks in the order
\* of their declaration (id, and the rectangle of the region), the
\* SubResource references of the SpriteFrames block in their order, and the
\* speed.  EmptyAsset: a text with none of these.
EmptyAsset == [atlas |-> <<>>, refs |-> <<>>, speed |-> NoSpeed]
\* No file was read.
NoRead == [done |-> FALSE, ok |-> FALSE, asset |-> EmptyAsset]

VARIABLES
    now,                \* Date.now()
    alive,              \* host: the view accepts setDecorations
    lastBlipAt,         \* EditorState.lastBlipAt
    lastBoomAt,         \* EditorState.lastBoomAt
    activeDecorations,  \* EditorState.activeDecorations
    buffers,            \* EditorState.buffers (sequences of option identities)
    animTimers,         \* EditorState.animTimers
    animPending,        \* tick callbacks set by setTimeout, not run or cleared
    ttlTimers,          \* pending TTL one-shots of applyOnce, by captured option
    nextOpt,            \* identities handed out so far
    shakeTimer,         \* EditorState.shakeTimer
    shakePending,       \* applyShake callbacks set by setTimeout, not run yet
    activeShakeDecoKey, \* EditorState.activeShakeDecoKey ("" is undefined)
    shakeEndAt,         \* EditorState.shakeEndAt (0 is undefined)
    lastShakeAt,        \* now as the last shake() on the view read it (0: none)
    spriteData,         \* decoded frames and fps per kind, process-wide
    runningSpriteAnim,  \* per view and kind: the step closure's i and its timer
    spritePending,      \* step callbacks set by setTimeout, not run or cleared
    microtasks,         \* playSpriteAnim calls suspended at their await, in order
    comboShown,         \* host: ranges applied for the blip/boom/newline types
    animShown,          \* host: what animDecoration shows
    shakeShown,         \* host: shake decoration types with ranges applied
    ev                  \* the handler or callback that ran last, and what it did

stateVars == <<lastBlipAt, lastBoomAt, activeDecorations, buffers, animTimers,
               animPending, ttlTimers, nextOpt>>
shakeVars == <<shakeTimer, shakePending, activeShakeDecoKey, shakeEndAt,
               lastShakeAt, shakeShown>>
spriteVars == <<spriteData, runningSpriteAnim, spritePending, microtasks,
                animShown>>
vars == <<now, alive, lastBlipAt, lastBoomAt, activeDecorations, buffers,
          animTimers, animPending, ttlTimers, nextOpt, shakeTimer,
          shakePending, activeShakeDecoKey, shakeEndAt, lastShakeAt, spriteData,
          runningSpriteAnim, spritePending, microtasks, comboShown,
          animShown, shakeShown, ev>>

Max(a, b) == IF a >= b THEN a ELSE b

\* ev: op, v, kind name the handler or callback; didVisual is the local of
\* showBlip/showBoom (the time gate passed); admitted: applyOnce got past
\* canAddDecoration and its render; evicted: its buffer.shift() ran; shake,
\* label: the arguments; renders: the decoration types setDecorations was
\* called on; threw: an exception left the handler or callback; read: the
\* asset files ensureSpriteData read.
NoEv == [op |-> "init", v |-> "", kind |-> "", didVisual |-> FALSE,
         admitted |-> FALSE, evicted |-> FALSE, shake |-> FALSE,
         label |-> FALSE, renders |-> {}, threw |-> FALSE, read |-> NoRead]

Ev(op, v, kind, didVisual, admitted, shake, label, renders, threw) ==
    [op |-> op, v |-> v, kind |-> kind, didVisual |-> didVisual,
     admitted |-> admitted, evicted |-> FALSE, shake |-> shake,
     label |-> label, renders |-> renders, threw |-> threw, read |-> NoRead]

\* getEditorState's fresh state, the empty runningSpriteAnim and a host view
\* with nothing applied.
Init ==
    /\ now \in {StartNow}
    /\ alive = [v \in Views |-> TRUE]
    /\ lastBlipAt = [v \in Views |-> 0]
    /\ lastBoomAt = [v \in Views |-> 0]
    /\ activeDecorations = [v \in Views |-> [k \in Kinds |-> 0]]
    /\ buffers = [v \in Views |-> [k \in Kinds |-> <<>>]]
    /\ animTimers = [v \in Views |-> [k \in Kinds |-> NoTimer]]
    /\ animPending = [v \in Views |-> [k \in Kinds |-> 0]]
    /\ ttlTimers = [v \in Views |-> [k \in Kinds |-> {}]]
    /\ nextOpt = 0
    /\ shakeTimer = [v \in Views |-> NoTimer]
    /\ shakePending = [v \in Views |-> 0]
    /\ activeShakeDecoKey = [v \in Views |-> ""]
    /\ shakeEndAt = [v \in Views |-> 0]
    /\ lastShakeAt = [v \in Views |-> 0]
    /\ spriteData = [k \in Kinds |-> NoData]
    /\ runningSpriteAnim = [v \in Views |-> [k \in Kinds |-> NoRun]]
    /\ spritePending = [v \in Views |-> [k \in Kinds |-> 0]]
    /\ microtasks = <<>>
    /\ comboShown = [v \in Views |-> [k \in Kinds |-> <<>>]]
    /\ animShown = [v \in Views |-> NoFrame]
    /\ shakeShown = [v \in Views |-> {}]
    /\ ev = NoEv

(***************************************************************************)
(* Combo buffer: canAddDecoration, ensureAnimating, applyOnce.             *)
(***************************************************************************)
\* Mutants of canAddDecoration: an off-by-one comparison; the check left out.
CanAddDecoration_Le(v, kind) ==
    activeDecorations[v][kind] <= MAX_DECORATIONS_PER_TYPE

CanAddDecoration_Always(v, kind) == activeDecorations[v][kind] >= 0

CanAddDecoration(v, kind) ==
    activeDecorations[v][kind] < MAX_DECORATIONS_PER_TYPE

\* Mutant of the cap: one less than the trail length.
Cap_BelowTrail == maxTrail - 1

\* cap of applyOnce.
Cap == Max(maxTrail, MAX_DECORATIONS_PER_TYPE)

\* Mutant of the eviction: the newest entry is dropped (pop for shift).
PushShift_Pop(buf, opt) ==
    LET b == Append(buf, opt)
    IN  IF Len(b) > Cap THEN buf ELSE b

\* buffer.push(...); if (buffer.length > cap) buffer.shift();
PushShift(buf, opt) ==
    LET b == Append(buf, opt)
    IN  IF Len(b) > Cap THEN Tail(b) ELSE b

\* Mutant of ensureAnimating: it returns on an empty slot as well.
EnsureAnimatingArms_Never(v, kind) == animTimers[v][kind] = Stale

\* if (state.animTimers[kind]) return;
EnsureAnimatingArms(v, kind) == animTimers[v][kind] = NoTimer

\* ensureAnimating: returns when the slot holds a handle, else arms the tick.
EnsureAnimating(v, kind) ==
    IF ~EnsureAnimatingArms(v, kind)
    THEN animTimers
    ELSE [animTimers EXCEPT ![v][kind] = Armed]

\* The tick callbacks pending after ensureAnimating.
EnsureAnimatingPending(v, kind) ==
    IF ~EnsureAnimatingArms(v, kind)
    THEN animPending
    ELSE [animPending EXCEPT ![v][kind] = @ + 1]

\* applyOnce throws out of its editor.setDecorations when the view is gone.
ApplyOnceThrows(v, kind) == CanAddDecoration(v, kind) /\ ~alive[v]

ApplyOnceAdmits(v, kind) == CanAddDecoration(v, kind) /\ alive[v]

ApplyOnceRenders(v, kind) == IF CanAddDecoration(v, kind) THEN {kind} ELSE {}

\* applyOnce takes its buffer.shift() branch.
ApplyOnceEvicts(v, kind) ==
    CanAddDecoration(v, kind) /\ Len(buffers[v][kind]) + 1 > Cap

ApplyOnce(v, kind) ==
    IF ~CanAddDecoration(v, kind)
    THEN UNCHANGED <<buffers, nextOpt, comboShown, animTimers, animPending,
                     activeDecorations, ttlTimers>>
    ELSE /\ buffers' = [buffers EXCEPT
                          ![v][kind] = PushShift(buffers[v][kind], nextOpt)]
         /\ nextOpt' = nextOpt + 1
         /\ IF alive[v]
            THEN /\ comboShown' = [comboShown EXCEPT
                                     ![v][kind] = buffers'[v][kind]]
                 /\ animTimers' = EnsureAnimating(v, kind)
                 /\ animPending' = EnsureAnimatingPending(v, kind)
                 /\ activeDecorations' = [activeDecorations EXCEPT
                                            ![v][kind] = @ + 1]
                 /\ ttlTimers' = [ttlTimers EXCEPT
                                    ![v][kind] = @ \cup {nextOpt}]
            ELSE UNCHANGED <<comboShown, animTimers, animPending,
                             activeDecorations, ttlTimers>>

\* Mutant of the TTL removal: the head of the buffer is removed.
Without_Head(buf, opt) == IF buf = <<>> THEN buf ELSE Tail(buf)

\* arr.findIndex(x => x.opt === opt), arr.splice(idx, 1)
Without(buf, opt) == SelectSeq(buf, LAMBDA x : x # opt)

InBuffer(buf, opt) == \E i \in 1..Len(buf) : buf[i] = opt

\* The setTimeout callback of applyOnce for the option opt.
TtlFire(v, kind, opt) ==
    /\ microtasks = <<>>
    /\ opt \in ttlTimers[v][kind]
    /\ ttlTimers' = [ttlTimers EXCEPT ![v][kind] = @ \ {opt}]
    /\ LET found == InBuffer(buffers[v][kind], opt)
           arr == Without(buffers[v][kind], opt)
           threw == found /\ ~alive[v]
       IN  /\ buffers' = [buffers EXCEPT ![v][kind] = arr]
           /\ comboShown' = IF found /\ alive[v]
                            THEN [comboShown EXCEPT ![v][kind] = arr]
                            ELSE comboShown
           /\ activeDecorations' =
                  IF threw
                  THEN activeDecorations
                  ELSE [activeDecorations EXCEPT
                          ![v][kind] = Max(0, @ - 1)]
           /\ ev' = Ev("ttl", v, kind, FALSE, FALSE, FALSE, FALSE,
                       IF found THEN {kind} ELSE {}, FALSE)
    /\ UNCHANGED <<now, alive, lastBlipAt, lastBoomAt, animTimers, animPending,
                   nextOpt>>
    /\ UNCHANGED shakeVars
    /\ UNCHANGED spriteVars

\* Mutant of the tick: it schedules the next frame whatever the buffer holds.
AnimTickSlot_Resched(v, kind) ==
    IF alive[v] \/ buffers[v][kind] = <<>> THEN Armed ELSE Stale

\* Mutant of the tick: on an empty buffer it returns without deleting its
\* handle from the slot.
AnimTickSlot_HandleKept(v, kind) ==
    IF alive[v] /\ buffers[v][kind] # <<>> THEN Armed ELSE Stale

\* What the tick leaves in its slot: nothing when the buffer is empty, the
\* next frame's handle after its render, its own handle when the render threw.
AnimTickSlot(v, kind) ==
    IF buffers[v][kind] = <<>> THEN NoTimer
    ELSE IF alive[v] THEN Armed ELSE Stale

\* The tick closure of ensureAnimating.
AnimTick(v, kind) ==
    /\ microtasks = <<>>
    /\ animTimers[v][kind] = Armed
    /\ LET empty == buffers[v][kind] = <<>>
       IN  /\ animTimers' = [animTimers EXCEPT ![v][kind] =
                                AnimTickSlot(v, kind)]
           /\ animPending' = [animPending EXCEPT ![v][kind] =
                  IF AnimTickSlot(v, kind) = Armed THEN @ ELSE @ - 1]
           /\ comboShown' = IF ~empty /\ alive[v]
                            THEN [comboShown EXCEPT
                                    ![v][kind] = buffers[v][kind]]
                            ELSE comboShown
           /\ ev' = Ev("tick", v, kind, FALSE, FALSE, FALSE, FALSE,
                       IF empty THEN {} ELSE {kind}, ~empty /\ ~alive[v])
    /\ UNCHANGED <<now, alive, lastBlipAt, lastBoomAt, activeDecorations,
                   buffers, ttlTimers, nextOpt>>
    /\ UNCHANGED shakeVars
    /\ UNCHANGED spriteVars

(***************************************************************************)
(* Sprite player: ensureSpriteData, clearSpriteAnim, playSpriteAnim.       *)
(***************************************************************************)
NoKind == ""

\* atlasMap.get(id): the rectangle of the last declaration of id.
AtlasGet(atlas, id) ==
    LET last == CHOOSE i \in 1..Len(atlas) :
                   /\ atlas[i].id = id
                   /\ \A j \in (i + 1)..Len(atlas) : atlas[j].id # id
    IN  atlas[last].rect

AtlasHas(atlas, id) == \E i \in 1..Len(atlas) : atlas[i].id = id

\* [...atlasMap.values()]: one rectangle per id, in the order in which the
\* ids were declared first.
AtlasValues(atlas) ==
    LET idx == [i \in 1..Len(atlas) |-> i]
        firsts == SelectSeq(idx, LAMBDA i :
                     \A j \in 1..(i - 1) : atlas[j].id # atlas[i].id)
    IN  [k \in 1..Len(firsts) |-> AtlasGet(atlas, atlas[firsts[k]].id)]

\* Mutant of the decoder: the frames in the order of their declaration.
FramesInOrder_Declared(asset) ==
    LET idx == [i \in 1..Len(asset.atlas) |-> i]
        used == SelectSeq(idx, LAMBDA i :
                   \E r \in 1..Len(asset.refs) :
                      asset.refs[r] = asset.atlas[i].id)
    IN  [k \in 1..Len(used) |-> asset.atlas[used[k]].rect]

\* for (const id of framesOrder) { rect = atlasMap.get(id);
\*                                if (rect) frames.push(rect); }
FramesInOrder(asset) ==
    LET present == SelectSeq(asset.refs,
                             LAMBDA id : AtlasHas(asset.atlas, id))
    IN  [k \in 1..Len(present) |-> AtlasGet(asset.atlas, present[k])]

\* The frames of the decoded result, with the fallback to the atlas order.
DecodeFrames(asset) ==
    IF FramesInOrder(asset) = <<>> /\ asset.atlas # <<>>
    THEN AtlasValues(asset.atlas)
    ELSE FramesInOrder(asset)

\* fps = speedMatch ? Math.max(1, parseFloat(speedMatch[1])) : 24
DecodeFps(asset) ==
    IF asset.speed = NoSpeed THEN DefaultFps ELSE Max(1, asset.speed)

Decode(asset) == [frames |-> DecodeFrames(asset), fps |-> DecodeFps(asset)]

\* Mutant of ensureSpriteData: the cache is not consulted.
EnsureSpriteDataReads_Always(kind) == spriteData[kind].fps >= 0

\* if (this.spriteData && this.spriteData[kind]) return;
EnsureSpriteDataReads(kind) == spriteData[kind] = NoData

\* ensureSpriteData: memoized per kind.  asset: what the files of the kind
\* hold; ok: they can be read.  A failed read throws before the cache is
\* written.
EnsureSpriteData(kind, asset, ok) ==
    IF ~EnsureSpriteDataReads(kind)
    THEN spriteData
    ELSE IF ok THEN [spriteData EXCEPT ![kind] = Decode(asset)] ELSE spriteData

\* The promise of ensureSpriteData rejects.
EnsureSpriteDataRejects(kind, ok) == EnsureSpriteDataReads(kind) /\ ~ok

\* What ensureSpriteData read.
EnsureSpriteDataRead(kind, asset, ok) ==
    IF ~EnsureSpriteDataReads(kind) THEN NoRead
    ELSE [done |-> TRUE, ok |-> ok, asset |-> IF ok THEN asset ELSE EmptyAsset]

\* clearSpriteAnim(editor, kind?): the map after it (kind = NoKind: every kind,
\* and the map is dropped).
ClearSpriteAnim(v, kind) ==
    [runningSpriteAnim EXCEPT ![v] =
        [k \in Kinds |-> IF kind = NoKind \/ k = kind THEN NoRun ELSE @[k]]]

\* The step callbacks pending after clearSpriteAnim: clearTimeout(t) for
\* every handle it finds in the map.
ClearSpriteAnimPending(v, kind) ==
    [spritePending EXCEPT ![v] =
        [k \in Kinds |->
            IF (kind = NoKind \/ k = kind) /\ runningSpriteAnim[v][k].t = Armed
            THEN @[k] - 1
            ELSE @[k]]]

\* clearSpriteAnim clears animDecoration only when it is given a kind.
ClearSpriteAnimRenders(kind) == IF kind # NoKind THEN {"anim"} ELSE {}

\* playSpriteAnim up to its await: ensureSpriteData runs synchronously, the
\* rest of playSpriteAnim is queued as a microtask.
PlaySpriteAnim(v, kind, asset, ok) ==
    /\ spriteData' = EnsureSpriteData(kind, asset, ok)
    /\ microtasks' = Append(microtasks,
           [v |-> v, kind |-> kind,
            rejected |-> EnsureSpriteDataRejects(kind, ok)])

\* Mutant of playSpriteAnim: the existing run of the kind is not cancelled.
CancelExisting_Kept(v, kind) == spritePending[v][kind]

\* const existing = map[kind]; if (existing) { clearTimeout(existing); ... }
CancelExisting(v, kind) ==
    IF runningSpriteAnim[v][kind].t = Armed
    THEN spritePending[v][kind] - 1
    ELSE spritePending[v][kind]

\* playSpriteAnim after its await, up to and including the first step().
PlaySpriteAnimResume ==
    /\ microtasks # <<>>
    /\ microtasks' = Tail(microtasks)
    /\ LET v == Head(microtasks).v
           kind == Head(microtasks).kind
           rejected == Head(microtasks).rejected
           plays == ~rejected /\ Len(spriteData[kind].frames) > 0
       IN  /\ runningSpriteAnim' =
                  IF ~plays THEN runningSpriteAnim
                  ELSE [runningSpriteAnim EXCEPT ![v][kind] =
                           IF alive[v] THEN [i |-> 1, t |-> Armed] ELSE NoRun]
           /\ spritePending' =
                  IF ~plays THEN spritePending
                  ELSE [spritePending EXCEPT ![v][kind] =
                           CancelExisting(v, kind)
                              + (IF alive[v] THEN 1 ELSE 0)]
           /\ animShown' = IF plays /\ alive[v]
                           THEN [animShown EXCEPT ![v] = <<kind, 0>>]
                           ELSE animShown
           /\ ev' = Ev("playSpriteAnim", v, kind, FALSE, FALSE, FALSE, FALSE,
                       IF plays THEN {"anim"} ELSE {},
                       rejected \/ (plays /\ ~alive[v]))
    /\ UNCHANGED <<now, alive, spriteData, comboShown>>
    /\ UNCHANGED stateVars
    /\ UNCHANGED shakeVars

\* Mutant of the step: the run ends one frame early.
SpriteStepDone_Early(i, total) == i + 1 >= total

\* if (i >= total) { clear animDecoration; delete map[kind]; return; }
SpriteStepDone(i, total) == i >= total

\* The step closure of playSpriteAnim, run by its timer.
SpriteStep(v, kind) ==
    /\ microtasks = <<>>
    /\ runningSpriteAnim[v][kind].t = Armed
    /\ LET i == runningSpriteAnim[v][kind].i
           total == Len(spriteData[kind].frames)
           done == SpriteStepDone(i, total)
       IN  /\ runningSpriteAnim' = [runningSpriteAnim EXCEPT ![v][kind] =
                  IF done
                  THEN IF alive[v] THEN NoRun ELSE [i |-> i, t |-> Stale]
                  ELSE [i |-> i + 1, t |-> IF alive[v] THEN Armed ELSE Stale]]
           /\ spritePending' = [spritePending EXCEPT ![v][kind] =
                  IF ~done /\ alive[v] THEN @ ELSE @ - 1]
           /\ animShown' = IF ~alive[v] THEN animShown
                           ELSE [animShown EXCEPT ![v] =
                                    IF done THEN NoFrame ELSE <<kind, i>>]
           /\ ev' = Ev("step", v, kind, FALSE, FALSE, FALSE, FALSE,
                       {"anim"}, ~alive[v])
    /\ UNCHANGED <<now, alive, spriteData, microtasks, comboShown>>
    /\ UNCHANGED stateVars
    /\ UNCHANGED shakeVars

(***************************************************************************)
(* Shake controller.                                                       *)
(***************************************************************************)
\* Mutant of the deadline: the earlier deadline is forgotten.
ShakeDeadline_NoMax(v, extendMs) == now + Max(extendMs, decayMs)

\* state.shakeEndAt = Math.max(state.shakeEndAt ?? 0, now + maxExtend)
ShakeDeadline(v, extendMs) ==
    Max(shakeEndAt[v], now + Max(extendMs, decayMs))

\* Mutant of applyShake: the deadline is not looked at.
ShakeOver_Unset(endAt) == endAt = 0

\* applyShake's test for the end of the shake.
ShakeOver(endAt) == endAt = 0 \/ now > endAt

\* The decoration types applyShake calls setDecorations on; key is the
\* displacement the random angle gives.
ApplyShakeRenders(v, key, endAt) ==
    LET prev == activeShakeDecoKey[v]
    IN  IF ShakeOver(endAt)
        THEN IF prev # "" THEN {prev} ELSE {}
        ELSE (IF prev # "" /\ prev # key THEN {prev} ELSE {}) \cup {key}

ApplyShakeThrows(v, key, endAt) ==
    ~alive[v] /\ ApplyShakeRenders(v, key, endAt) # {}

\* applyShake.  slot: what state.shakeTimer holds when it is entered (no
\* handle when shake() calls it, the handle that just fired when its
\* timer calls it).
ApplyShake(v, key, endAt, slot) ==
    LET prev == activeShakeDecoKey[v]
        fired == IF slot = Stale THEN 1 ELSE 0
    IN  IF ApplyShakeThrows(v, key, endAt)
        THEN /\ shakeTimer' = [shakeTimer EXCEPT ![v] = slot]
             /\ shakePending' = [shakePending EXCEPT ![v] = @ - fired]
             /\ UNCHANGED <<activeShakeDecoKey, shakeShown>>
        ELSE IF ShakeOver(endAt)
        THEN /\ shakeShown' = [shakeShown EXCEPT ![v] = @ \ {prev}]
             /\ activeShakeDecoKey' = [activeShakeDecoKey EXCEPT ![v] = ""]
             /\ shakeTimer' = [shakeTimer EXCEPT ![v] = NoTimer]
             /\ shakePending' = [shakePending EXCEPT ![v] = @ - fired]
        ELSE /\ shakeShown' = [shakeShown EXCEPT
                                 ![v] = (@ \ {prev}) \cup {key}]
             /\ activeShakeDecoKey' = [activeShakeDecoKey EXCEPT ![v] = key]
             /\ shakeTimer' = [shakeTimer EXCEPT ![v] = Armed]
             /\ shakePending' = [shakePending EXCEPT ![v] = @ - fired + 1]

\* Mutant of shake: the loop is started whether or not one is running.
StartsShake_Always(v) == shakeTimer[v] \in {NoTimer, Armed, Stale}

\* shake(editor, extendMs) starts the loop only when state.shakeTimer is unset.
StartsShake(v) == shakeTimer[v] = NoTimer

ShakeRenders(v, extendMs, key) ==
    IF StartsShake(v)
    THEN ApplyShakeRenders(v, key, ShakeDeadline(v, extendMs))
    ELSE {}

ShakeThrows(v, extendMs, key) ==
    StartsShake(v) /\ ApplyShakeThrows(v, key, ShakeDeadline(v, extendMs))

Shake(v, extendMs, key) ==
    /\ lastShakeAt' = [lastShakeAt EXCEPT ![v] = now]
    /\ shakeEndAt' = [shakeEndAt EXCEPT ![v] = ShakeDeadline(v, extendMs)]
    /\ IF StartsShake(v)
       THEN ApplyShake(v, key, ShakeDeadline(v, extendMs), NoTimer)
       ELSE UNCHANGED <<shakeTimer, shakePending, activeShakeDecoKey,
                        shakeShown>>

\* applyShake run by its 16 ms timer.
ShakeTick(v, key) ==
    /\ microtasks = <<>>
    /\ shakeTimer[v] = Armed
    /\ ApplyShake(v, key, shakeEndAt[v], Stale)
    /\ ev' = Ev("shakeTick", v, NoKind, FALSE, FALSE, FALSE, FALSE,
                ApplyShakeRenders(v, key, shakeEndAt[v]),
                ApplyShakeThrows(v, key, shakeEndAt[v]))
    /\ UNCHANGED <<now, alive, shakeEndAt, lastShakeAt, comboShown>>
    /\ UNCHANGED stateVars
    /\ UNCHANGED spriteVars

(***************************************************************************)
(* Entry points.                                                           *)
(***************************************************************************)
\* Mutants of the blip gate: a strict comparison; the other kind's timestamp.
BlipGate_Strict(v) == now - lastBlipAt[v] > BlipMinInterval

BlipGate_WrongStamp(v) == now - lastBoomAt[v] >= BlipMinInterval

\* now - state.lastBlipAt >= 20
BlipGate(v) == now - lastBlipAt[v] >= BlipMinInterval

\* Mutant of the boom gate: the other kind's timestamp.
BoomGate_WrongStamp(v) == now - lastBlipAt[v] >= BoomMinInterval

\* now - state.lastBoomAt >= 100
BoomGate(v) == now - lastBoomAt[v] >= BoomMinInterval

\* The body the three entry points share: when the gate passes,
\* clearSpriteAnim(editor), applyOnce, playSpriteAnim; then, gate or not,
\* shake when asked.  An exception of applyOnce ends the call.
Fire(op, v, kind, pass, label, shake, extendMs, key, asset, ok) ==
    LET threwA == pass /\ ApplyOnceThrows(v, kind)
        shakes == shake /\ ~threwA
    IN  /\ IF pass
           THEN /\ runningSpriteAnim' = ClearSpriteAnim(v, NoKind)
                /\ spritePending' = ClearSpriteAnimPending(v, NoKind)
                /\ ApplyOnce(v, kind)
                /\ IF threwA
                   THEN UNCHANGED <<spriteData, microtasks>>
                   ELSE PlaySpriteAnim(v, kind, asset, ok)
           ELSE UNCHANGED <<runningSpriteAnim, spritePending, buffers,
                            nextOpt, comboShown, animTimers, animPending,
                            activeDecorations, ttlTimers, spriteData,
                            microtasks>>
        /\ IF shakes
           THEN Shake(v, extendMs, key)
           ELSE UNCHANGED shakeVars
        /\ ev' = [Ev(op, v, kind, pass, pass /\ ApplyOnceAdmits(v, kind),
                     shake, label,
                     (IF pass
                      THEN ClearSpriteAnimRenders(NoKind)
                              \cup ApplyOnceRenders(v, kind)
                      ELSE {})
                       \cup (IF shakes THEN ShakeRenders(v, extendMs, key)
                             ELSE {}),
                     threwA \/ (shakes /\ ShakeThrows(v, extendMs, key)))
                  EXCEPT !.evicted = pass /\ ApplyOnceEvicts(v, kind),
                         !.read = IF pass /\ ~threwA
                                  THEN EnsureSpriteDataRead(kind, asset, ok)
                                  ELSE NoRead]
        /\ UNCHANGED <<now, alive, animShown>>

ShowBlip(v, showChars, shake, charLabel, key, asset, ok) ==
    /\ lastBlipAt' = IF BlipGate(v)
                     THEN [lastBlipAt EXCEPT ![v] = now]
                     ELSE lastBlipAt
    /\ Fire("showBlip", v, "blip", BlipGate(v), showChars /\ charLabel,
            shake, BlipShakeMs, key, asset, ok)
    /\ UNCHANGED lastBoomAt

ShowBoom(v, showChars, shake, charLabel, key, asset, ok) ==
    /\ lastBoomAt' = IF BoomGate(v)
                     THEN [lastBoomAt EXCEPT ![v] = now]
                     ELSE lastBoomAt
    /\ Fire("showBoom", v, "boom", BoomGate(v), showChars /\ charLabel,
            shake, BoomShakeMs, key, asset, ok)
    /\ UNCHANGED lastBlipAt

ShowNewline(v, shake, key, asset, ok) ==
    /\ Fire("showNewline", v, "newline", TRUE, FALSE, shake, NewlineShakeMs,
            key, asset, ok)
    /\ UNCHANGED <<lastBlipAt, lastBoomAt>>

\* clearAllDecorations resets the counts, the buffers and the animation
\* timers of the view.
ClearedCounts(v) ==
    [activeDecorations EXCEPT ![v] = [k \in Kinds |-> 0]]

\* Mutant of clearAllDecorations: the buffers of every view are replaced.
ClearedBuffers_All(v) == [w \in Views |-> [k \in Kinds |-> <<>>]]

ClearedBuffers(v) == [buffers EXCEPT ![v] = [k \in Kinds |-> <<>>]]

\* Mutant of clearAllDecorations: the animation timers are left running.
ClearedAnimTimers_Kept(v) == animTimers

ClearedAnimTimers(v) ==
    [animTimers EXCEPT ![v] = [k \in Kinds |-> NoTimer]]

\* if (t) clearTimeout(t), for the three kinds.
ClearedAnimPending(v) ==
    [animPending EXCEPT ![v] =
        [k \in Kinds |-> IF animTimers[v][k] = Armed THEN @[k] - 1 ELSE @[k]]]

\* clearAllDecorations: everything is inside one try block, so the first
\* setDecorations that throws skips the rest.
ClearAllDecorations(v) ==
    /\ IF alive[v]
       THEN /\ comboShown' = [comboShown EXCEPT ![v] = [k \in Kinds |-> <<>>]]
            /\ activeDecorations' = ClearedCounts(v)
            /\ buffers' = ClearedBuffers(v)
            /\ animTimers' = ClearedAnimTimers(v)
            /\ animPending' = ClearedAnimPending(v)
       ELSE UNCHANGED <<comboShown, activeDecorations, buffers, animTimers,
                        animPending>>
    /\ ev' = Ev("clearAllDecorations", v, NoKind, FALSE, FALSE, FALSE, FALSE,
                IF alive[v]
                THEN {"blip", "boom", "newline", "jitterLeft", "jitterRight"}
                ELSE {"blip"},
                FALSE)
    /\ UNCHANGED <<now, alive, lastBlipAt, lastBoomAt, ttlTimers, nextOpt>>
    /\ UNCHANGED shakeVars
    /\ UNCHANGED spriteVars

(***************************************************************************)
(* Environment: the clock and the host closing a view.                     *)
(***************************************************************************)
Tick(d) ==
    /\ now' = now + d
    /\ ev' = [NoEv EXCEPT !.op = "clock"]
    /\ UNCHANGED <<alive, comboShown>>
    /\ UNCHANGED stateVars
    /\ UNCHANGED shakeVars
    /\ UNCHANGED spriteVars

CloseView(v) ==
    /\ alive[v]
    /\ alive' = [alive EXCEPT ![v] = FALSE]
    /\ ev' = [NoEv EXCEPT !.op = "close", !.v = v]
    /\ UNCHANGED <<now, comboShown>>
    /\ UNCHANGED stateVars
    /\ UNCHANGED shakeVars
    /\ UNCHANGED spriteVars

(***************************************************************************)
(* Specifications.  Each one lets the caller and the host do a part of     *)
(* what they can do, within bounds.                                        *)
(***************************************************************************)
V1 == {"v1"}

\* A well-formed asset of n regions, referenced in the order of their
\* declaration, at 12 frames a second.
RegionIds == <<"a", "b", "c", "d">>

AssetOf(n) ==
    [atlas |-> [i \in 1..n |-> [id |-> RegionIds[i], rect |-> i]],
     refs |-> [i \in 1..n |-> RegionIds[i]],
     speed |-> 12]

\* The displacement matters only to a call that shakes.
KeysFor(shake) == IF shake THEN ShakeKeys ELSE {"k1"}

\* Spec: the clock runs; every entry point with and without shake; the
\* assets decode to no frame, so no sprite run starts.
MaxOpts == 2

\* The instants, after StartNow, at which the clock is read.
Instants == {0, BlipMinInterval, BoomMinInterval}

Bounded ==
    /\ nextOpt <= MaxOpts
    /\ Len(microtasks) <= 1

Next ==
    \/ \E t \in Instants : now < StartNow + t /\ Tick(StartNow + t - now)
    \/ \E v \in V1, charLabel, shake \in BOOLEAN :
          \E key \in KeysFor(shake) :
             ShowBlip(v, TRUE, shake, charLabel, key, AssetOf(0), TRUE)
                /\ Bounded'
    \/ \E v \in V1, charLabel, shake \in BOOLEAN :
          \E key \in KeysFor(shake) :
             ShowBoom(v, TRUE, shake, charLabel, key, AssetOf(0), TRUE)
                /\ Bounded'
    \/ \E v \in V1, shake \in BOOLEAN :
          \E key \in KeysFor(shake) :
             ShowNewline(v, shake, key, AssetOf(0), TRUE) /\ Bounded'
    \/ \E v \in V1 : ClearAllDecorations(v)
    \/ PlaySpriteAnimResume
    \/ \E v \in V1, kind \in Kinds, opt \in 0..MaxOpts :
          TtlFire(v, kind, opt)
    \/ \E v \in V1, kind \in Kinds : AnimTick(v, kind)
    \/ \E v \in V1, key \in ShakeKeys : ShakeTick(v, key)

Spec == Init /\ [][Next]_vars

\* SpecCombo: the combo buffers at length, within one reading of the clock;
\* no shake, no label, assets without frames.
MaxComboOpts == 7

ComboBounded ==
    /\ nextOpt <= MaxComboOpts
    /\ Len(microtasks) <= 1

NextCombo ==
    \/ \E v \in V1 :
          ShowBlip(v, FALSE, FALSE, FALSE, "k1", AssetOf(0), TRUE)
             /\ ComboBounded'
    \/ \E v \in V1 :
          ShowBoom(v, FALSE, FALSE, FALSE, "k1", AssetOf(0), TRUE)
             /\ ComboBounded'
    \/ \E v \in V1 : ShowNewline(v, FALSE, "k1", AssetOf(0), TRUE)
       /\ ComboBounded'
    \/ \E v \in V1 : ClearAllDecorations(v)
    \/ PlaySpriteAnimResume
    \/ \E v \in V1, kind \in Kinds, opt \in 0..MaxComboOpts :
          TtlFire(v, kind, opt)
    \/ \E v \in V1, kind \in Kinds : AnimTick(v, kind)

SpecCombo == Init /\ [][NextCombo]_vars

\* SpecSprite: the sprite player, every asset decoding to MaxFrames frames;
\* the caller may make MaxPending calls in one turn of the event
\* loop; the TTL and animation timers of the combo buffer are not due yet.
MaxSpriteOpts == 3
MaxFrames == 2
MaxPending == 2

SpriteBounded ==
    /\ nextOpt <= MaxSpriteOpts
    /\ Len(microtasks) <= MaxPending

NextSprite ==
    \/ \E v \in V1, shake \in BOOLEAN :
          \E key \in KeysFor(shake) :
             ShowBlip(v, FALSE, shake, FALSE, key, AssetOf(MaxFrames), TRUE)
                /\ SpriteBounded'
    \/ \E v \in V1, shake \in BOOLEAN :
          \E key \in KeysFor(shake) :
             ShowBoom(v, FALSE, shake, FALSE, key, AssetOf(MaxFrames), TRUE)
                /\ SpriteBounded'
    \/ \E v \in V1, shake \in BOOLEAN :
          \E key \in KeysFor(shake) :
             ShowNewline(v, shake, key, AssetOf(MaxFrames), TRUE)
                /\ SpriteBounded'
    \/ \E v \in V1 : ClearAllDecorations(v)
    \/ PlaySpriteAnimResume
    \/ \E v \in V1, kind \in Kinds : SpriteStep(v, kind)
    \/ \E v \in V1, key \in ShakeKeys : ShakeTick(v, key)

SpecSprite == Init /\ [][NextSprite]_vars

\* SpecAssets: three different assets: blip decodes to MaxFrames frames, boom
\* to none, and the files of newline cannot be read.  The clock is read at
\* StartNow and BoomMinInterval later.
MaxAssetOpts == 3

AssetBounded ==
    /\ nextOpt <= MaxAssetOpts
    /\ Len(microtasks) <= MaxPending

NextAssets ==
    \/ now = StartNow /\ Tick(BoomMinInterval)
    \/ \E v \in V1 :
          ShowBlip(v, FALSE, FALSE, FALSE, "k1", AssetOf(MaxFrames), TRUE)
             /\ AssetBounded'
    \/ \E v \in V1 :
          ShowBoom(v, FALSE, FALSE, FALSE, "k1", AssetOf(0), TRUE)
             /\ AssetBounded'
    \/ \E v \in V1 :
          ShowNewline(v, FALSE, "k1", AssetOf(MaxFrames), FALSE)
             /\ AssetBounded'
    \/ PlaySpriteAnimResume
    \/ \E v \in V1, kind \in Kinds : SpriteStep(v, kind)

SpecAssets == Init /\ [][NextAssets]_vars

\* SpecShake: the shake controller with the clock running; every call asks
\* for shake; the assets decode to no frame; the TTL and animation timers of
\* the combo buffer are not due yet.
MaxShakeOpts == 3

\* The instants, after StartNow, at which the clock is read.
ShakeInstants == {0, 50, 150, 200}

ShakeBounded ==
    /\ nextOpt <= MaxShakeOpts
    /\ Len(microtasks) <= 1

NextShake ==
    \/ \E t \in ShakeInstants : now < StartNow + t /\ Tick(StartNow + t - now)
    \/ \E v \in V1, key \in ShakeKeys :
          ShowBlip(v, FALSE, TRUE, FALSE, key, AssetOf(0), TRUE)
             /\ ShakeBounded'
    \/ \E v \in V1, key \in ShakeKeys :
          ShowBoom(v, FALSE, TRUE, FALSE, key, AssetOf(0), TRUE)
             /\ ShakeBounded'
    \/ \E v \in V1, key \in ShakeKeys :
          ShowNewline(v, TRUE, key, AssetOf(0), TRUE) /\ ShakeBounded'
    \/ PlaySpriteAnimResume
    \/ \E v \in V1, key \in ShakeKeys : ShakeTick(v, key)

SpecShake == Init /\ [][NextShake]_vars

\* SpecStale: the host may close the view, after which every setDecorations
\* on it throws; newlines with and without shake, assets of MaxFrames frames,
\* every timer, within one reading of the clock.
MaxStaleOpts == 2

StaleBounded ==
    /\ nextOpt <= MaxStaleOpts
    /\ Len(microtasks) <= 1

NextStale ==
    \/ \E v \in V1 : CloseView(v)
    \/ \E v \in V1, shake \in BOOLEAN :
          \E key \in KeysFor(shake) :
             ShowNewline(v, shake, key, AssetOf(MaxFrames), TRUE)
                /\ StaleBounded'
    \/ \E v \in V1 : ClearAllDecorations(v)
    \/ PlaySpriteAnimResume
    \/ \E v \in V1, kind \in Kinds, opt \in 0..MaxStaleOpts :
          TtlFire(v, kind, opt)
    \/ \E v \in V1, kind \in Kinds : AnimTick(v, kind)
    \/ \E v \in V1, kind \in Kinds : SpriteStep(v, kind)
    \/ \E v \in V1, key \in ShakeKeys : ShakeTick(v, key)

SpecStale == Init /\ [][NextStale]_vars

\* SpecViews: two views side by side; blips, and newlines with and without
\* shake (showBoom is showBlip with other constants), assets of
\* MaxViewFrames frames, every timer, within one reading of the clock.
MaxViewOpts == 2
MaxViewFrames == 1

ViewBounded ==
    /\ nextOpt <= MaxViewOpts
    /\ Len(microtasks) <= 1

NextViews ==
    \/ \E v \in Views :
          ShowBlip(v, FALSE, FALSE, FALSE, "k1", AssetOf(MaxViewFrames), TRUE)
             /\ ViewBounded'
    \/ \E v \in Views, shake \in BOOLEAN :
          ShowNewline(v, shake, "k1", AssetOf(MaxViewFrames), TRUE)
             /\ ViewBounded'
    \/ \E v \in Views : ClearAllDecorations(v)
    \/ PlaySpriteAnimResume
    \/ \E v \in Views, kind \in Kinds, opt \in 0..MaxViewOpts :
          TtlFire(v, kind, opt)
    \/ \E v \in Views, kind \in Kinds : AnimTick(v, kind)
    \/ \E v \in Views, kind \in Kinds : SpriteStep(v, kind)
    \/ \E v \in Views : ShakeTick(v, "k1")

SpecViews == Init /\ [][NextViews]_vars

\* SpecDecode: the sprite decoder on every asset of up to MaxRegions regions
\* (declared once each) and up to MaxRefs references, declared or not, with
\* and without a speed; the files may be unreadable.  Newlines only, within
\* one reading of the clock.
MaxRegions == 3
MaxRefs == 3
MaxDecodeOpts == 2

DecodeIds == {"a", "b", "c"}

SeqsUpTo(S, n) == UNION {[1..m -> S] : m \in 0..n}

Declarations ==
    {ids \in SeqsUpTo(DecodeIds, MaxRegions) :
        \A i, j \in 1..Len(ids) : ids[i] = ids[j] => i = j}

DecodeAssets ==
    {[atlas |-> [i \in 1..Len(ids) |-> [id |-> ids[i], rect |-> i]],
      refs |-> refs,
      speed |-> speed] :
        ids \in Declarations,
        refs \in SeqsUpTo(DecodeIds, MaxRefs),
        speed \in {NoSpeed, 0, 12}}

DecodeBounded ==
    /\ nextOpt <= MaxDecodeOpts
    /\ Len(microtasks) <= 1

\* What the files hold matters only to a call that reads them.
AssetsFor(kind, ok) ==
    IF ok /\ EnsureSpriteDataReads(kind) THEN DecodeAssets ELSE {EmptyAsset}

NextDecode ==
    \/ \E v \in V1, ok \in BOOLEAN :
          \E asset \in AssetsFor("newline", ok) :
             ShowNewline(v, FALSE, "k1", asset, ok) /\ DecodeBounded'
    \/ PlaySpriteAnimResume
    \/ \E v \in V1, kind \in Kinds : SpriteStep(v, kind)

SpecDecode == Init /\ [][NextDecode]_vars

\* SpecCache: the files change between the calls (one frame, MaxFrames
\* frames, unreadable); blips and newlines, within one reading of the clock.
MaxCacheOpts == 3

CacheBounded ==
    /\ nextOpt <= MaxCacheOpts
    /\ Len(microtasks) <= 1

NextCache ==
    \/ \E v \in V1, n \in {1, MaxFrames}, ok \in BOOLEAN :
          ShowBlip(v, FALSE, FALSE, FALSE, "k1", AssetOf(n), ok)
             /\ CacheBounded'
    \/ \E v \in V1, n \in {1, MaxFrames}, ok \in BOOLEAN :
          ShowNewline(v, FALSE, "k1", AssetOf(n), ok) /\ CacheBounded'
    \/ PlaySpriteAnimResume
    \/ \E v \in V1, kind \in Kinds : SpriteStep(v, kind)

SpecCache == Init /\ [][NextCache]_vars

\* SpecNoClear: SpecCombo without clearAllDecorations.
MaxNoClearOpts == 7

NoClearBounded ==
    /\ nextOpt <= MaxNoClearOpts
    /\ Len(microtasks) <= 1

NextNoClear ==
    \/ \E v \in V1 :
          ShowBlip(v, FALSE, FALSE, FALSE, "k1", AssetOf(0), TRUE)
             /\ NoClearBounded'
    \/ \E v \in V1 :
          ShowBoom(v, FALSE, FALSE, FALSE, "k1", AssetOf(0), TRUE)
             /\ NoClearBounded'
    \/ \E v \in V1 :
          ShowNewline(v, FALSE, "k1", AssetOf(0), TRUE) /\ NoClearBounded'
    \/ PlaySpriteAnimResume
    \/ \E v \in V1, kind \in Kinds, opt \in 0..MaxNoClearOpts :
          TtlFire(v, kind, opt)
    \/ \E v \in V1, kind \in Kinds : AnimTick(v, kind)

SpecNoClear == Init /\ [][NextNoClear]_vars

\* SpecQuiesce: a finite number of newlines, with and without shake, with
\* assets of MaxFrames frames, called before the clock reaches its last
\* instant; clearAllDecorations; the view stays open.  Every timer callback
\* that is pending runs in the end, the continuation of playSpriteAnim runs,
\* and the clock goes on to its last instant, which is later than every
\* deadline a call can set.
MaxQuietOpts == 3

QuietInstants == {0, 100, 300}

QuietBounded ==
    /\ nextOpt <= MaxQuietOpts
    /\ Len(microtasks) <= 1

QuietClock ==
    \E t \in QuietInstants : now < StartNow + t /\ Tick(StartNow + t - now)

CallsOpen == \E t \in QuietInstants : now < StartNow + t

NextQuiesce ==
    \/ QuietClock
    \/ \E v \in V1, shake \in BOOLEAN :
          \E key \in KeysFor(shake) :
             /\ CallsOpen
             /\ ShowNewline(v, shake, key, AssetOf(MaxFrames), TRUE)
             /\ QuietBounded'
    \/ \E v \in V1 : ClearAllDecorations(v)
    \/ PlaySpriteAnimResume
    \/ \E v \in V1, kind \in Kinds, opt \in 0..MaxQuietOpts :
          TtlFire(v, kind, opt)
    \/ \E v \in V1, kind \in Kinds : AnimTick(v, kind)
    \/ \E v \in V1, kind \in Kinds : SpriteStep(v, kind)
    \/ \E v \in V1, key \in ShakeKeys : ShakeTick(v, key)

QuietFair ==
    /\ WF_vars(QuietClock)
    /\ WF_vars(PlaySpriteAnimResume)
    /\ \A v \in V1, kind \in Kinds :
          /\ \A opt \in 0..MaxQuietOpts : WF_vars(TtlFire(v, kind, opt))
          /\ WF_vars(AnimTick(v, kind))
          /\ WF_vars(SpriteStep(v, kind))
    /\ \A v \in V1 : WF_vars(\E key \in ShakeKeys : ShakeTick(v, key))

SpecQuiesce == Init /\ [][NextQuiesce]_vars /\ QuietFair

\* SpecTimers: the combo timers and the sprite timers together, within one
\* reading of the clock; assets of MaxFrames frames, no shake.
MaxTimerOpts == 3

TimerBounded ==
    /\ nextOpt <= MaxTimerOpts
    /\ Len(microtasks) <= MaxPending

NextTimers ==
    \/ \E v \in V1 :
          ShowBlip(v, FALSE, FALSE, FALSE, "k1", AssetOf(MaxFrames), TRUE)
             /\ TimerBounded'
    \/ \E v \in V1 :
          ShowBoom(v, FALSE, FALSE, FALSE, "k1", AssetOf(MaxFrames), TRUE)
             /\ TimerBounded'
    \/ \E v \in V1 :
          ShowNewline(v, FALSE, "k1", AssetOf(MaxFrames), TRUE)
             /\ TimerBounded'
    \/ \E v \in V1 : ClearAllDecorations(v)
    \/ PlaySpriteAnimResume
    \/ \E v \in V1, kind \in Kinds, opt \in 0..MaxTimerOpts :
          TtlFire(v, kind, opt)
    \/ \E v \in V1, kind \in Kinds : AnimTick(v, kind)
    \/ \E v \in V1, kind \in Kinds : SpriteStep(v, kind)

SpecTimers == Init /\ [][NextTimers]_vars

(***************************************************************************)
(* Properties.                                                             *)
(***************************************************************************)
IsShow(e, op, v) == e.op = op /\ e.v = v

\* C1: showBlip passes its time gate iff now - lastBlipAt >= 20 and showBoom
\* iff now - lastBoomAt >= 100; a call that passes sets the timestamp to now,
\* a call that fails leaves it; so two accepted fires of one kind on one view
\* are at least the minimum interval apart.
C1_TimeGate ==
    [][\A v \in Views :
         /\ IsShow(ev', "showBlip", v) =>
               /\ ev'.didVisual <=> (now - lastBlipAt[v] >= 20)
               /\ lastBlipAt'[v] = IF now - lastBlipAt[v] >= 20
                                   THEN now ELSE lastBlipAt[v]
         /\ IsShow(ev', "showBoom", v) =>
               /\ ev'.didVisual <=> (now - lastBoomAt[v] >= 100)
               /\ lastBoomAt'[v] = IF now - lastBoomAt[v] >= 100
                                   THEN now ELSE lastBoomAt[v]
         /\ lastBlipAt'[v] # lastBlipAt[v] =>
               lastBlipAt'[v] - lastBlipAt[v] >= 20
         /\ lastBoomAt'[v] # lastBoomAt[v] =>
               lastBoomAt'[v] - lastBoomAt[v] >= 100]_vars

\* A boom rejected 20 ms after the accepted one, at the instant of an
\* accepted blip.
C1_Witness ==
    /\ IsShow(ev, "showBoom", "v1")
    /\ ~ev.didVisual
    /\ lastBoomAt["v1"] = StartNow
    /\ now = StartNow + 20
    /\ lastBlipAt["v1"] = now

\* A call of showBlip or showBoom on v that arrives before the minimum
\* interval has elapsed since the last accepted fire.
Early(v) ==
    \/ IsShow(ev', "showBlip", v) /\ now - lastBlipAt[v] < 20
    \/ IsShow(ev', "showBoom", v) /\ now - lastBoomAt[v] < 100

\* C2: a fire request that arrives early leaves the buffers, the counts, the
\* animation timers and the pending TTL removals of the view as they were,
\* whatever its arguments.  (showNewline has no minimum interval.)
C2_EarlyNoMutation ==
    [][\A v \in Views :
         Early(v) =>
            /\ buffers'[v] = buffers[v]
            /\ activeDecorations'[v] = activeDecorations[v]
            /\ animTimers'[v] = animTimers[v]
            /\ ttlTimers'[v] = ttlTimers[v]
            /\ nextOpt' = nextOpt]_vars

\* An early blip, asking for shake, on a view with a buffered blip.
C2_Witness ==
    /\ IsShow(ev, "showBlip", "v1")
    /\ ~ev.didVisual
    /\ ev.shake
    /\ now - lastBlipAt["v1"] < 20
    /\ buffers["v1"]["blip"] # <<>>
    /\ ttlTimers["v1"]["blip"] # {}

\* C3 as claimed: an early fire request calls setDecorations on nothing.
C3_EarlyNoRender ==
    [][\A v \in Views : Early(v) => ev'.renders = {}]_vars

\* C3 as amended: an early fire request renders nothing on the combo layers
\* and the animation layer; without shake it calls setDecorations on nothing,
\* with shake only on shake displacement types.
C3_EarlyRendersShakeOnly ==
    [][\A v \in Views :
         Early(v) =>
            /\ ev'.renders \subseteq (IF ev'.shake THEN ShakeKeys ELSE {})
            /\ comboShown'[v] = comboShown[v]
            /\ animShown'[v] = animShown[v]]_vars

\* An early boom that asked for shake and applied a displacement.
C3_Witness ==
    /\ IsShow(ev, "showBoom", "v1")
    /\ ~ev.didVisual
    /\ ev.shake
    /\ ev.renders # {}
    /\ shakeShown["v1"] # {}

\* C4: 0 <= activeDecorations[kind] <= 5 for every view and kind.
C4_CountInRange ==
    \A v \in Views, k \in Kinds :
       /\ activeDecorations[v][k] >= 0
       /\ activeDecorations[v][k] <= 5

\* The count at 5 while removals scheduled before a clearAllDecorations are
\* still pending.
C4_Witness ==
    /\ activeDecorations["v1"]["newline"] = 5
    /\ Cardinality(ttlTimers["v1"]["newline"]) > 5

\* C5: applyOnce at the maximum is rejected silently: buffer and count stay,
\* no combo render of the kind, no animation loop started, no TTL removal
\* scheduled, no exception.
C5_RejectAtMax ==
    [][\A v \in Views, k \in Kinds :
         (/\ ev'.v = v
          /\ ev'.kind = k
          /\ ev'.op \in {"showBlip", "showBoom", "showNewline"}
          /\ ev'.didVisual
          /\ activeDecorations[v][k] = 5) =>
            /\ ~ev'.admitted
            /\ buffers'[v][k] = buffers[v][k]
            /\ activeDecorations'[v][k] = activeDecorations[v][k]
            /\ k \notin ev'.renders
            /\ comboShown'[v] = comboShown[v]
            /\ animTimers'[v][k] = animTimers[v][k]
            /\ ttlTimers'[v][k] = ttlTimers[v][k]
            /\ ~ev'.threw]_vars

\* A newline refused at a count of 5.
C5_Witness ==
    /\ IsShow(ev, "showNewline", "v1")
    /\ ev.didVisual
    /\ ~ev.admitted
    /\ activeDecorations["v1"]["newline"] = 5
    /\ Len(buffers["v1"]["newline"]) = 5

\* The options are numbered in the order of their creation.
Oldest(buf) == CHOOSE x \in {buf[i] : i \in 1..Len(buf)} :
                  \A j \in 1..Len(buf) : x <= buf[j]

\* C6: a buffer never holds more than max(trailLength, 5) entries; an
\* insertion into a full buffer evicts exactly one entry, the oldest, and
\* keeps the new one; any other insertion evicts nothing.
C6_CapFifo ==
    /\ [](\A v \in Views, k \in Kinds : Len(buffers[v][k]) <= Max(maxTrail, 5))
    /\ [][\A v \in Views, k \in Kinds :
            (ev'.v = v /\ ev'.kind = k /\ ev'.admitted
               /\ ev'.op \in {"showBlip", "showBoom", "showNewline"}) =>
               IF Len(buffers[v][k]) >= Max(maxTrail, 5)
               THEN /\ ev'.evicted
                    /\ Head(buffers[v][k]) = Oldest(buffers[v][k])
                    /\ buffers'[v][k] = Append(Tail(buffers[v][k]), nextOpt)
               ELSE /\ ~ev'.evicted
                    /\ buffers'[v][k] = Append(buffers[v][k], nextOpt)]_vars

\* A newline whose insertion evicted the oldest entry.
C6_Witness ==
    /\ IsShow(ev, "showNewline", "v1")
    /\ ev.admitted
    /\ ev.evicted
    /\ Len(buffers["v1"]["newline"]) = 5

\* C7: right after clearAllDecorations(view) every count is 0, every buffer
\* is empty and no combo-animation timer is left, for the three kinds.
C7_ClearResets ==
    \A v \in Views :
       IsShow(ev, "clearAllDecorations", v) =>
          \A k \in Kinds :
             /\ activeDecorations[v][k] = 0
             /\ buffers[v][k] = <<>>
             /\ animTimers[v][k] = NoTimer

\* A clear of a view that had entries (their removals are still pending).
C7_Witness ==
    /\ IsShow(ev, "clearAllDecorations", "v1")
    /\ ttlTimers["v1"]["newline"] # {}
    /\ ttlTimers["v1"]["blip"] # {}

\* C8: right after clearAllDecorations(view) nothing is shown on the view (no
\* combo decoration, no sprite frame, no shake displacement) and no sprite
\* or shake timer is left to render again.
C8_ClearRemovesAll ==
    \A v \in Views :
       IsShow(ev, "clearAllDecorations", v) =>
          /\ \A k \in Kinds : comboShown[v][k] = <<>>
          /\ animShown[v] = NoFrame
          /\ shakeShown[v] = {}
          /\ shakeTimer[v] # Armed
          /\ \A k \in Kinds : runningSpriteAnim[v][k].t # Armed

\* C9: after clearAllDecorations the view behaves as one without history.
\* On a view without history the first blip or boom is admitted, and the
\* count of a kind equals the length of its buffer in every state.
C9_AsIfFresh ==
    /\ [](\A v \in Views, k \in Kinds :
             activeDecorations[v][k] = Len(buffers[v][k]))
    /\ [][\A v \in Views :
            (/\ IsShow(ev, "clearAllDecorations", v)
             /\ ev'.v = v
             /\ ev'.op \in {"showBlip", "showBoom"}) =>
               ev'.didVisual /\ ev'.admitted]_vars

\* C10: at most one kind has a pending sprite step on a view.
C10_OneSpriteRun ==
    \A v \in Views :
       Cardinality({k \in Kinds : runningSpriteAnim[v][k].t = Armed}) <= 1

\* C11: a sprite run that starts while a run of another kind is active
\* cancels that run and clears its frame from the animation layer; so when
\* the part of playSpriteAnim after the await has rendered nothing (no
\* frames, or the decode failed) and no run is left on the view, the
\* animation layer shows nothing.
C11_CancelledFrameCleared ==
    \A v \in Views :
       (/\ ev.op = "playSpriteAnim"
        /\ ev.v = v
        /\ ev.renders = {}
        /\ \A k \in Kinds : runningSpriteAnim[v][k].t # Armed) =>
          animShown[v] = NoFrame

\* C12: for each view and kind at most one combo-animation tick callback
\* and at most one sprite step callback is pending, and the pending one is
\* the one whose handle the slot holds; a sprite run that starts while a run
\* of its own kind is pending on the view replaces it.
C12_OnePendingTimer ==
    /\ [](\A v \in Views, k \in Kinds :
             /\ animPending[v][k] \in {0, 1}
             /\ spritePending[v][k] \in {0, 1}
             /\ animPending[v][k] = 1 <=> animTimers[v][k] = Armed
             /\ spritePending[v][k] = 1 <=> runningSpriteAnim[v][k].t = Armed)
    /\ [][\A v \in Views, k \in Kinds :
            (/\ ev'.op = "playSpriteAnim"
             /\ ev'.v = v
             /\ ev'.kind = k
             /\ ev'.renders # {}
             /\ runningSpriteAnim[v][k].t = Armed) =>
               /\ spritePending'[v][k] = 1
               /\ runningSpriteAnim'[v][k] = [i |-> 1, t |-> Armed]]_vars

\* After two newlines (both admitted, both past the await of
\* playSpriteAnim) a tick and a step are pending.
C12_Witness ==
    /\ ev.op = "playSpriteAnim"
    /\ ev.kind = "newline"
    /\ microtasks = <<>>
    /\ Cardinality(ttlTimers["v1"]["newline"]) = 2
    /\ animPending["v1"]["newline"] = 1
    /\ spritePending["v1"]["newline"] = 1
    /\ runningSpriteAnim["v1"]["newline"] = [i |-> 1, t |-> Armed]

\* buf with its i-th entry taken out.
RemoveAt(buf, i) == SubSeq(buf, 1, i - 1) \o SubSeq(buf, i + 1, Len(buf))

\* C13: when the TTL one-shot of an instance fires, the buffer of its kind
\* loses that instance and nothing else, the other entries keeping their
\* order; when the instance is not in the buffer any more, the buffer stays
\* as it is.  No other buffer changes.
C13_TtlRemovesOwn ==
    [][\A v \in Views, k \in Kinds :
         (ev'.op = "ttl" /\ ev'.v = v /\ ev'.kind = k) =>
            \E opt \in ttlTimers[v][k] :
               /\ ttlTimers'[v][k] = ttlTimers[v][k] \ {opt}
               /\ IF \E i \in 1..Len(buffers[v][k]) : buffers[v][k][i] = opt
                  THEN \E i \in 1..Len(buffers[v][k]) :
                          /\ buffers[v][k][i] = opt
                          /\ buffers'[v][k] = RemoveAt(buffers[v][k], i)
                  ELSE buffers'[v][k] = buffers[v][k]
               /\ \A w \in Views, j \in Kinds :
                     <<w, j>> # <<v, k>> => buffers'[w][j] = buffers[w][j]]_vars

\* The one-shot of the second of three newlines fired first.
C13_Witness ==
    /\ ev.op = "ttl"
    /\ ev.kind = "newline"
    /\ ev.renders = {"newline"}
    /\ Len(buffers["v1"]["newline"]) = 2
    /\ buffers["v1"]["newline"][2] - buffers["v1"]["newline"][1] = 2

\* C14: the count of a kind is decremented once for every admitted entry,
\* when that entry times out or is cleared, and never on behalf of another
\* entry; so every entry still in the buffer holds its unit of the count:
\* the count is at least the length of the buffer.
C14_CountCoversLive ==
    \A v \in Views, k \in Kinds :
       activeDecorations[v][k] >= Len(buffers[v][k])

\* C15: the tick that finds the buffer of its kind empty renders nothing,
\* empties its timer slot and schedules nothing; and a combo-animation timer
\* of a view and kind comes into being only in an applyOnce call that admits
\* an instance of that kind on that view.
C15_TickLoopStops ==
    [][\A v \in Views, k \in Kinds :
         /\ (/\ ev'.op = "tick"
             /\ ev'.v = v
             /\ ev'.kind = k
             /\ buffers[v][k] = <<>>) =>
               /\ ev'.renders = {}
               /\ animTimers'[v][k] = NoTimer
               /\ animPending'[v][k] = 0
         /\ (animTimers[v][k] = NoTimer /\ animTimers'[v][k] # NoTimer) =>
               /\ ev'.op \in {"showBlip", "showBoom", "showNewline"}
               /\ ev'.v = v
               /\ ev'.kind = k
               /\ ev'.admitted]_vars

\* The tick of newline stopped after the only newline timed out.
C15_Witness ==
    /\ ev.op = "tick"
    /\ ev.kind = "newline"
    /\ ev.renders = {}
    /\ nextOpt > 0
    /\ buffers["v1"]["newline"] = <<>>
    /\ ttlTimers["v1"]["newline"] = {}
    /\ animTimers["v1"]["newline"] = NoTimer

\* The extension each entry point asks of shake().
ExtendOf(op) == IF op = "showBlip" THEN 120
                ELSE IF op = "showBoom" THEN 180 ELSE 140

\* C16: a shake trigger at time now with extension extendMs sets the
\* deadline to max(previous deadline, now + max(extendMs, 120)); the deadline
\* never decreases; a trigger with 140 that comes 50 ms after a trigger
\* with 120 at T, which left the deadline at T+120, leaves it at T+190.
C16_ShakeDeadline ==
    [][\A v \in Views :
         /\ shakeEndAt'[v] >= shakeEndAt[v]
         /\ (/\ ev'.op \in {"showBlip", "showBoom", "showNewline"}
             /\ ev'.v = v
             /\ ev'.shake) =>
               LET ext == IF ExtendOf(ev'.op) >= 120
                          THEN ExtendOf(ev'.op) ELSE 120
               IN  /\ shakeEndAt'[v] = IF shakeEndAt[v] >= now + ext
                                       THEN shakeEndAt[v] ELSE now + ext
                   /\ (/\ ev'.op = "showNewline"
                       /\ lastShakeAt[v] = now - 50
                       /\ shakeEndAt[v] = lastShakeAt[v] + 120) =>
                         shakeEndAt'[v] = lastShakeAt[v] + 190]_vars

\* showBlip with shake at StartNow, showNewline with shake 50 ms later.
C16_Witness ==
    /\ IsShow(ev, "showNewline", "v1")
    /\ ev.shake
    /\ nextOpt = 2
    /\ lastBlipAt["v1"] = StartNow
    /\ lastBoomAt["v1"] = 0
    /\ now = StartNow + 50
    /\ lastShakeAt["v1"] = now
    /\ shakeEndAt["v1"] = StartNow + 190

\* C17 as claimed, taken at the states a shake tick leaves: once more than
\* the decay floor has passed since the last trigger, a shake tick leaves no
\* displacement applied.
C17_DecaysAfterFloor ==
    \A v \in Views :
       (/\ ev.op = "shakeTick"
        /\ ev.v = v
        /\ now > lastShakeAt[v] + decayMs) =>
          shakeShown[v] = {}

\* C17 as amended: the deadline is at least the decay floor after the last
\* trigger; while a displacement is applied a shake tick is pending; a shake
\* tick that runs after the deadline leaves no displacement and no timer,
\* one that runs up to the deadline leaves a displacement applied.
C17_DecaysAfterDeadline ==
    \A v \in Views :
       /\ lastShakeAt[v] > 0 => shakeEndAt[v] >= lastShakeAt[v] + decayMs
       /\ shakeShown[v] # {} =>
             /\ shakeTimer[v] = Armed
             /\ shakeShown[v] = {activeShakeDecoKey[v]}
       /\ (ev.op = "shakeTick" /\ ev.v = v) =>
             IF now > shakeEndAt[v]
             THEN shakeShown[v] = {} /\ shakeTimer[v] = NoTimer
             ELSE shakeShown[v] # {}

\* A shake tick ended the shake after a deadline later than the decay floor
\* after the last trigger.
C17_Witness ==
    /\ ev.op = "shakeTick"
    /\ ev.v = "v1"
    /\ shakeEndAt["v1"] > lastShakeAt["v1"] + decayMs
    /\ now > shakeEndAt["v1"]
    /\ ev.renders # {}
    /\ shakeShown["v1"] = {}
    /\ shakeTimer["v1"] = NoTimer

\* C18: a render that fails because the view was closed is swallowed in
\* every path: no exception leaves a handler or a callback, every buffer
\* entry has its TTL removal pending, every unit of a count has a TTL
\* removal left to decrement it, and no timer slot holds the handle of a
\* timer that already ran.
C18_StaleViewSwallowed ==
    /\ ~ev.threw
    /\ \A v \in Views, k \in Kinds :
          /\ \A i \in 1..Len(buffers[v][k]) :
                buffers[v][k][i] \in ttlTimers[v][k]
          /\ activeDecorations[v][k] <= Cardinality(ttlTimers[v][k])
          /\ animTimers[v][k] # Stale
          /\ runningSpriteAnim[v][k].t # Stale
    /\ \A v \in Views : shakeTimer[v] # Stale

\* C19: when the sprite asset of the kind cannot be read or decoded during
\* showBlip, showBoom or showNewline, the call of the entry point ends with
\* an exception.
C19_DecodeFailurePropagates ==
    [][\A v \in Views :
         (/\ ev'.op \in {"showBlip", "showBoom", "showNewline"}
          /\ ev'.v = v
          /\ Len(microtasks') = Len(microtasks) + 1
          /\ microtasks'[Len(microtasks')].rejected) =>
            ev'.threw]_vars

\* The per-view state of b and what the host shows on b.
ViewState(b) ==
    <<lastBlipAt[b], lastBoomAt[b], activeDecorations[b], buffers[b],
      animTimers[b], animPending[b], ttlTimers[b], runningSpriteAnim[b],
      spritePending[b], shakeTimer[b], shakePending[b],
      activeShakeDecoKey[b], shakeEndAt[b],
      lastShakeAt[b], comboShown[b], animShown[b], shakeShown[b]>>

\* C20: a call or a timer callback that belongs to one view leaves the
\* per-view state of every other view, and the decorations applied to it,
\* unchanged.
C20_ViewIsolation ==
    [][\A a, b \in Views :
         (a # b /\ ev'.v = a) => ViewState(b)' = ViewState(b)]_vars

\* clearAllDecorations on v1, which had an entry, while v2 has a buffered
\* newline, its tick, a sprite run and a shake.
C20_Witness ==
    /\ IsShow(ev, "clearAllDecorations", "v1")
    /\ ttlTimers["v1"]["newline"] # {}
    /\ buffers["v2"]["newline"] # <<>>
    /\ animTimers["v2"]["newline"] = Armed
    /\ runningSpriteAnim["v2"]["newline"].t = Armed
    /\ shakeShown["v2"] # {}

\* An asset whose regions are declared once each, whose references all name
\* a declared region, and which declares a speed of at least 1.
WellFormed(a) ==
    /\ \A i, j \in 1..Len(a.atlas) : a.atlas[i].id = a.atlas[j].id => i = j
    /\ \A i \in 1..Len(a.refs) :
          \E j \in 1..Len(a.atlas) : a.atlas[j].id = a.refs[i]
    /\ a.refs # <<>>
    /\ a.speed >= 1

\* C21: the frames decoded from a well-formed asset are the rectangles of
\* the referenced regions, one per reference, in the order of the
\* references, and fps is the declared speed; regions a, b, c referenced as
\* b, a, c at speed 12 give the rectangles of b, a, c at 12 fps.
C21_DecodeOrder ==
    [][\A k \in Kinds :
         (/\ ev'.kind = k
          /\ ev'.read.done
          /\ ev'.read.ok
          /\ WellFormed(ev'.read.asset)) =>
            LET a == ev'.read.asset
                d == spriteData'[k]
            IN  /\ Len(d.frames) = Len(a.refs)
                /\ \A i \in 1..Len(a.refs) :
                      \E j \in 1..Len(a.atlas) :
                         /\ a.atlas[j].id = a.refs[i]
                         /\ d.frames[i] = a.atlas[j].rect
                /\ d.fps = a.speed
                /\ (a.refs = <<"b", "a", "c">> /\ a.speed = 12) =>
                      /\ Len(d.frames) = 3
                      /\ d.fps = 12]_vars

\* Regions declared as a, b, c (rectangles 1, 2, 3), referenced as b, a, c.
C21_Witness ==
    /\ ev.op = "showNewline"
    /\ ev.read.done
    /\ ev.read.asset.atlas = <<[id |-> "a", rect |-> 1],
                               [id |-> "b", rect |-> 2],
                               [id |-> "c", rect |-> 3]>>
    /\ ev.read.asset.refs = <<"b", "a", "c">>
    /\ ev.read.asset.speed = 12
    /\ spriteData["newline"] = [frames |-> <<2, 1, 3>>, fps |-> 12]

\* C22: once a kind is decoded its cached result never changes; a later
\* call of ensureSpriteData for it reads no file (so it cannot fail either)
\* and leaves the cache of every kind as it is.
C22_Memoized ==
    [][\A k \in Kinds :
         /\ spriteData[k] # NoData => spriteData'[k] = spriteData[k]
         /\ (/\ ev'.op \in {"showBlip", "showBoom", "showNewline"}
             /\ ev'.kind = k
             /\ ev'.didVisual
             /\ spriteData[k] # NoData) =>
               /\ ~ev'.read.done
               /\ spriteData' = spriteData
               /\ Len(microtasks') = Len(microtasks) + 1
               /\ ~microtasks'[Len(microtasks')].rejected]_vars

\* A second newline, served from the cache that the first filled with the
\* one-frame asset, next to the cache of blip.
C22_Witness ==
    /\ ev.op = "showNewline"
    /\ ev.didVisual
    /\ ~ev.read.done
    /\ nextOpt = 3
    /\ lastBlipAt["v1"] = StartNow
    /\ spriteData["newline"] = [frames |-> <<1>>, fps |-> 12]
    /\ Len(spriteData["blip"].frames) = MaxFrames

\* C23 as claimed: the combo-animation timer of a kind is absent whenever
\* the buffer of the kind is empty.
C23_NoTimerWhenEmpty ==
    \A v \in Views, k \in Kinds :
       buffers[v][k] = <<>> => animTimers[v][k] = NoTimer

\* C23 as amended: while the buffer of a kind is empty, the only timer the
\* slot can hold is the one pending tick that was scheduled before the
\* buffer became empty; a tick that has run on the empty buffer, and
\* clearAllDecorations, leave no timer and no pending tick.
C23_TimerGoneAfterTick ==
    \A v \in Views, k \in Kinds :
       buffers[v][k] = <<>> =>
          /\ animPending[v][k] <= 1
          /\ animTimers[v][k] # NoTimer =>
                animTimers[v][k] = Armed /\ animPending[v][k] = 1
          /\ (\/ ev.op = "init"
              \/ ev.op = "clearAllDecorations" /\ ev.v = v
              \/ ev.op = "tick" /\ ev.v = v /\ ev.kind = k) =>
                animTimers[v][k] = NoTimer /\ animPending[v][k] = 0

\* The TTL removal of the only newline emptied the buffer; the tick is
\* still pending.
C23_Witness ==
    /\ ev.op = "ttl"
    /\ ev.kind = "newline"
    /\ ev.renders # {}
    /\ buffers["v1"]["newline"] = <<>>
    /\ animTimers["v1"]["newline"] = Armed
    /\ animPending["v1"]["newline"] = 1

\* C24: a sprite run of a kind with n frames renders frame 0 when it starts
\* and frame i at its i-th step, one frame at a time on the animation layer;
\* the step after frame n-1 clears the animation layer and removes the run,
\* and leaves no step pending; the frame index of a run moves only by one, at
\* its own step.
C24_SpriteRunFrames ==
    [][\A v \in Views, k \in Kinds :
         LET n == Len(spriteData[k].frames)
             run == runningSpriteAnim[v][k]
         IN  /\ (/\ ev'.op = "playSpriteAnim"
                 /\ ev'.v = v
                 /\ ev'.kind = k
                 /\ ev'.renders # {}) =>
                   /\ n > 0
                   /\ animShown'[v] = <<k, 0>>
                   /\ runningSpriteAnim'[v][k] = [i |-> 1, t |-> Armed]
             /\ (ev'.op = "step" /\ ev'.v = v /\ ev'.kind = k) =>
                   /\ run.t = Armed
                   /\ run.i \in 1..n
                   /\ IF run.i < n
                      THEN /\ animShown'[v] = <<k, run.i>>
                           /\ runningSpriteAnim'[v][k] =
                                 [i |-> run.i + 1, t |-> Armed]
                           /\ spritePending'[v][k] = 1
                      ELSE /\ animShown'[v] = NoFrame
                           /\ runningSpriteAnim'[v][k] = NoRun
                           /\ spritePending'[v][k] = 0
             /\ ~(ev'.op = "step" /\ ev'.v = v /\ ev'.kind = k) =>
                   runningSpriteAnim'[v][k].i \in {run.i, 0, 1}]_vars

\* The run of newline went through its MaxFrames frames and ended.
C24_Witness ==
    /\ ev.op = "step"
    /\ ev.kind = "newline"
    /\ Len(spriteData["newline"].frames) = MaxFrames
    /\ animShown["v1"] = NoFrame
    /\ runningSpriteAnim["v1"]["newline"] = NoRun
    /\ spritePending["v1"]["newline"] = 0

\* C25: a view has at most one pending shake tick, the one whose handle
\* shakeTimer holds, and at most one displacement style applied, the one
\* activeShakeDecoKey names; a shake tick that observes now > shakeEndAt
\* leaves no displacement applied, activeShakeDecoKey unset and no timer.
C25_OneShakeLoop ==
    \A v \in Views :
       /\ shakePending[v] \in {0, 1}
       /\ shakePending[v] = 1 <=> shakeTimer[v] = Armed
       /\ Cardinality(shakeShown[v]) <= 1
       /\ shakeShown[v] =
             (IF activeShakeDecoKey[v] = "" THEN {}
              ELSE {activeShakeDecoKey[v]})
       /\ (ev.op = "shakeTick" /\ ev.v = v /\ now > shakeEndAt[v]) =>
             /\ shakeShown[v] = {}
             /\ activeShakeDecoKey[v] = ""
             /\ shakeTimer[v] = NoTimer
             /\ shakePending[v] = 0

\* A shake tick cleared the displacement applied before and applied another,
\* after a second trigger that found the loop running.
C25_Witness ==
    /\ ev.op = "shakeTick"
    /\ ev.renders = {"k1", "k2"}
    /\ shakeShown["v1"] = {"k2"}
    /\ shakeTimer["v1"] = Armed
    /\ shakePending["v1"] = 1
    /\ lastShakeAt["v1"] = StartNow + 50
    /\ shakeEndAt["v1"] = StartNow + 190

\* C26: as long as clearAllDecorations is not called and no render fails,
\* the buffer of a kind is never longer than the count of the kind, so never
\* longer than 5, and applyOnce never takes its buffer.shift() branch.
C26_BufferWithinCount ==
    /\ ~ev.evicted
    /\ \A v \in Views, k \in Kinds :
          /\ Len(buffers[v][k]) <= activeDecorations[v][k]
          /\ Len(buffers[v][k]) <= 5

\* A sixth newline refused while five are buffered: the call that would
\* overflow the buffer is never admitted.
C26_Witness ==
    /\ IsShow(ev, "showNewline", "v1")
    /\ ~ev.admitted
    /\ Len(buffers["v1"]["newline"]) = 5
    /\ activeDecorations["v1"]["newline"] = 5
    /\ nextOpt > 5

\* C27: while no render has failed, a buffer that is not empty has its
\* combo-animation tick pending.
C27_BufferedIsAnimated ==
    \A v \in Views, k \in Kinds :
       buffers[v][k] # <<>> =>
          animTimers[v][k] = Armed /\ animPending[v][k] = 1

\* A newline admitted after clearAllDecorations removed the timer of the
\* newlines before it.
C27_Witness ==
    /\ IsShow(ev, "showNewline", "v1")
    /\ ev.admitted
    /\ Len(buffers["v1"]["newline"]) = 1
    /\ Cardinality(ttlTimers["v1"]["newline"]) = 3
    /\ animTimers["v1"]["newline"] = Armed

\* The view holds nothing and waits for nothing.
Quiescent(v) ==
    /\ shakePending[v] = 0
    /\ \A k \in Kinds :
          /\ buffers[v][k] = <<>>
          /\ activeDecorations[v][k] = 0
          /\ ttlTimers[v][k] = {}
          /\ animPending[v][k] = 0
          /\ spritePending[v][k] = 0

\* C28: once the show* calls have stopped, and with every pending timer
\* firing in the end, each view reaches, and stays in, a state in which all
\* its buffers are empty, all its counts are 0 and none of its TTL,
\* combo-animation, sprite-step and shake timers is pending.
C28_Quiescence == <>[](\A v \in Views : Quiescent(v))

\* Two newlines with shake are over: the tick of the shake loop that finds
\* the deadline passed was the last callback to run.
C28_Witness ==
    /\ Quiescent("v1")
    /\ nextOpt = 2
    /\ ev.op = "shakeTick"
    /\ lastShakeAt["v1"] = StartNow + 100
    /\ now = StartNow + 300

=============================================================================
